---- MODULE Spec2Model ----
(***************************************************************************)
(* Verification model of the poker evaluation and equity-estimation core   *)
(* of mit-poker-2026:                                                      *)
(*   - python_skeleton_vNB/build_discard_table.py  (discard-table builder) *)
(*   - python_skeleton_vNB/build_equity_table.py   (equity-table builder)  *)
(*   - python_skeleton_vNB/player.py               (runtime lookup path)   *)
(*   - cc_py_bot_v1/poker_utils.py                 (hand classifier)       *)
(*                                                                         *)
(* A card string such as "As" is the pair <<"A", "s">> of its two          *)
(* characters (c[0], c[1] in the Python code); keys are real strings.      *)
(***************************************************************************)
EXTENDS Integers, Sequences, FiniteSets, TLC, Bags

VARIABLES
    hand,       \* key machine: the hand cards given so far (a sequence of cards)
    board,      \* key machine: the board cards given so far
    out,        \* key machine: the result of the last key operation
    pc,         \* builder: where the build tool's control is
    queue,      \* build_table: the (hand3, board) pairs still to visit
    cur,        \* build_table: the pair being evaluated and its key
    di,         \* best_discard: the loop index di
    best,       \* best_discard: best_idx and best_score
    table,      \* build_table: the discard table built so far (key -> index)
    caller,     \* estimate_equity: who called it ("direct" or "best_discard")
    impl,       \* estimate_equity: which build tool's copy runs
    kept,       \* estimate_equity: its hand argument (kept / hand)
    e_board,    \* estimate_equity: its board argument
    trials,     \* the trials argument
    deck,       \* estimate_equity: deck.cards, a bag of cards
    need_board, \* estimate_equity: need_board
    trial,      \* estimate_equity: trials completed
    wins,       \* estimate_equity: wins
    ties,       \* estimate_equity: ties
    opp,        \* estimate_equity: opp, the cards dealt to the opponent
    draw,       \* estimate_equity: draw, the board cards dealt
    result,     \* estimate_equity: the value returned
    ev_cards,   \* classifier: hand_cards + board_cards, the cards known so far
    flags,      \* classifier: the dict evaluate_poker_hands returned for them
    pl_pc,      \* Player: "unborn", "ready" or "raised" (a call raised)
    discard_file,   \* the file discard_table.pkl found at startup
    combined_file,  \* the file equity_tables.pkl found at startup
    stage_file,     \* the file equity_table_h*_b*.pkl found at startup
    discard_table,  \* Player.discard_table
    equity_tables,  \* Player.equity_tables
    pl_out,     \* Player: the last call of the engine and what it returned
    eq_table,   \* build_equity_table.build_table: the table built so far
    seen,       \* unique_canonical_boards: the canonical boards seen for a hand
    scores,     \* best_discard: kept and score of the discards evaluated so far
    uh_pc,      \* unique_canonical_hands: "idle", "loop" or "done"
    uh_impl,    \* unique_canonical_hands: which build tool's copy runs
    uh_queue,   \* unique_canonical_hands: the combinations still to visit
    uh_seen,    \* unique_canonical_hands: seen
    uh_unique,  \* unique_canonical_hands: unique
    ht_pc,      \* build_discard_table.main: "idle", "loop", "returned" or "done"
    ht_queue,   \* build_table: the (hand3, board) pairs still to visit
    ht_table,   \* build_table: table
    ht_file,    \* the file discard_table.pkl beside player.py
    ht_player,  \* the Player that plays: "unborn" or "ready"
    ht_loaded,  \* that Player's discard_table
    ht_out      \* that Player's discard of the current round

keyVars == <<hand, board, out>>

buildVars == <<queue, cur, di, best, table, scores>>

eqVars == <<caller, impl, kept, e_board, trials, deck, need_board, trial, wins, ties,
            opp, draw, result>>

classVars == <<ev_cards, flags>>

ebVars == <<eq_table, seen>>

fileVars == <<discard_file, combined_file, stage_file>>

playerVars == <<pl_pc, fileVars, discard_table, equity_tables, pl_out>>

vars == <<hand, board, out, pc, queue, cur, di, best, table, caller, impl, kept,
          e_board, trials, deck, need_board, trial, wins, ties, opp, draw, result,
          ev_cards, flags, pl_pc, discard_file, combined_file, stage_file,
          discard_table, equity_tables, pl_out, eq_table, seen, scores,
          uh_pc, uh_impl, uh_queue, uh_seen, uh_unique,
          ht_pc, ht_queue, ht_table, ht_file, ht_player, ht_loaded, ht_out>>

\* what the actions of one machine leave unchanged outside it
uhVars == <<uh_pc, uh_impl, uh_queue, uh_seen, uh_unique>>

htVars == <<ht_pc, ht_queue, ht_table, ht_file, ht_player, ht_loaded, ht_out>>

keyFrame == <<pc, buildVars, eqVars, classVars, playerVars, ebVars, uhVars, htVars>>

outsideBuild == <<keyVars, classVars, playerVars, uhVars, htVars>>

\* the discard-table build and the estimator leave the equity-table build alone
buildFrame == <<outsideBuild, ebVars>>

classFrame == <<keyVars, pc, buildVars, eqVars, playerVars, ebVars, uhVars, htVars>>

playerFrame == <<keyVars, pc, buildVars, eqVars, classVars, ebVars, uhVars, htVars>>

uhFrame == <<keyVars, pc, buildVars, eqVars, classVars, ebVars, playerVars, htVars>>

htFrame == <<keyVars, pc, buildVars, eqVars, classVars, ebVars, playerVars, uhVars>>

(***************************************************************************)
(* Bounds of the model (inputs only).                                      *)
(***************************************************************************)
\* number of cards of PoolOrder the key machine draws hands and boards from
PoolSize == 6
\* largest board given to the key functions
MaxBoard == 3
\* number of cards of PoolOrder that make up the deck of the estimator
DeckSize == 12
\* largest trials argument
MaxTrials == 2
\* number of ranks of the deck unique_canonical_hands enumerates
UhRanks == 3
\* number of cards of ClassifierOrder the classifier's inputs are drawn from
ClassifierPool == 18

(***************************************************************************)
(* Program constants.                                                      *)
(***************************************************************************)
RANKS == <<"2", "3", "4", "5", "6", "7", "8", "9", "T", "J", "Q", "K", "A">>

SUITS == <<"s", "h", "d", "c">>

\* hands of the game: 3 cards before the discard, 2 after it
MinHand == 2

MaxHand == 3

\* build_equity_table.FINAL_BOARD_CARDS
FINAL_BOARD_CARDS == 6

\* the final board size build_discard_table.estimate_equity completes to
DiscardFinalBoard == 5

\* cards dealt to the opponent in a trial
OppCards == 2

\* best_idx before any discard was evaluated (Python None)
None == -1

\* poker_utils.evaluate_poker_hands: MAX_CARDS
MAX_CARDS == 8

(***************************************************************************)
(* Input enumeration: the cards hands and boards are drawn from.  The      *)
(* first four cards carry the four suits; the ranks are chosen so that     *)
(* rank order and character order differ ("T" > "Q" > "K" > "A" as         *)
(* characters) and so that every board texture occurs.                     *)
(***************************************************************************)
PoolOrder ==
    << <<"A", "s">>, <<"T", "h">>, <<"2", "d">>, <<"A", "c">>,
       <<"K", "s">>, <<"Q", "s">>, <<"9", "h">>, <<"K", "d">>,
       <<"3", "c">>, <<"T", "s">>, <<"J", "h">>, <<"4", "d">>,
       <<"5", "c">>, <<"6", "s">>, <<"7", "h">>, <<"8", "d">> >>

Pool == { PoolOrder[i] : i \in 1..(IF PoolSize < Len(PoolOrder) THEN PoolSize ELSE Len(PoolOrder)) }

(***************************************************************************)
(* Python built-ins used by the key functions.                             *)
(***************************************************************************)
\* ord(ch) of the characters a card string is made of
Ord(ch) ==
    CASE ch = "2" -> 50 [] ch = "3" -> 51 [] ch = "4" -> 52 [] ch = "5" -> 53
      [] ch = "6" -> 54 [] ch = "7" -> 55 [] ch = "8" -> 56 [] ch = "9" -> 57
      [] ch = "A" -> 65 [] ch = "J" -> 74 [] ch = "K" -> 75 [] ch = "Q" -> 81
      [] ch = "T" -> 84 [] ch = "c" -> 99 [] ch = "d" -> 100 [] ch = "h" -> 104
      [] ch = "s" -> 115

\* rank + suit: the two-character card string
CardStr(c) == c[1] \o c[2]

\* a < b on two-character strings (code point order, first character first)
StrLess(a, b) ==
    \/ Ord(a[1]) < Ord(b[1])
    \/ (a[1] = b[1] /\ Ord(a[2]) < Ord(b[2]))

RECURSIVE InsertSorted(_, _)
InsertSorted(c, s) ==
    IF s = <<>> THEN <<c>>
    ELSE IF StrLess(c, Head(s)) THEN <<c>> \o s
    ELSE <<Head(s)>> \o InsertSorted(c, Tail(s))

\* sorted(list of card strings)
RECURSIVE sorted(_)
sorted(s) ==
    IF s = <<>> THEN <<>>
    ELSE InsertSorted(s[Len(s)], sorted(SubSeq(s, 1, Len(s) - 1)))

\* "_".join(card strings)
RECURSIVE join(_)
join(s) ==
    IF s = <<>> THEN ""
    ELSE IF Len(s) = 1 THEN CardStr(s[1])
    ELSE CardStr(s[1]) \o "_" \o join(Tail(s))

\* str(n) for the small non-negative integers an f-string formats
Digit(d) ==
    CASE d = 0 -> "0" [] d = 1 -> "1" [] d = 2 -> "2" [] d = 3 -> "3"
      [] d = 4 -> "4" [] d = 5 -> "5" [] d = 6 -> "6" [] d = 7 -> "7"
      [] d = 8 -> "8" [] d = 9 -> "9"

RECURSIVE IntStr(_)
IntStr(n) == IF n < 10 THEN Digit(n) ELSE IntStr(n \div 10) \o Digit(n % 10)

\* the index of rank character r in "23456789TJQKA" (0-based, as enumerate gives)
IndexIn(seq, r) == (CHOOSE i \in 1..Len(seq) : seq[i] = r) - 1

Max(S) == CHOOSE x \in S : \A y \in S : y <= x

Min(S) == CHOOSE x \in S : \A y \in S : x <= y

(***************************************************************************)
(* Canonicalizer: suits relabelled by first-seen order.  suit_map is the   *)
(* dict, next_suit the unread rest of iter("shdc").                        *)
(***************************************************************************)
RECURSIVE canonicalize_loop(_, _, _, _)
canonicalize_loop(cards, suit_map, next_suit, outp) ==
    IF cards = <<>> THEN outp
    ELSE LET c == Head(cards)
             rank == c[1]
             suit == c[2]
             fresh == suit \notin DOMAIN suit_map
             m2 == IF fresh THEN suit_map @@ (suit :> Head(next_suit)) ELSE suit_map
             n2 == IF fresh THEN Tail(next_suit) ELSE next_suit
         IN  canonicalize_loop(Tail(cards), m2, n2, Append(outp, <<rank, m2[suit]>>))

\* Mutant of bd_canonicalize_cards: the output is sorted inside the canonicalizer
bd_canonicalize_cards_sorting(cards) ==
    sorted(canonicalize_loop(cards, <<>>, <<"s", "h", "d", "c">>, <<>>))

\* Mutant of be_canonicalize_cards: the original suit is appended, not suit_map[suit]
be_canonicalize_cards_nomap(cards) == cards

\* build_discard_table.canonicalize_cards
bd_canonicalize_cards(cards) == canonicalize_loop(cards, <<>>, <<"s", "h", "d", "c">>, <<>>)

\* build_equity_table.canonicalize_cards
be_canonicalize_cards(cards) == canonicalize_loop(cards, <<>>, <<"s", "h", "d", "c">>, <<>>)

\* Player._canonicalize_cards
Player_canonicalize_cards(cards) == canonicalize_loop(cards, <<>>, <<"s", "h", "d", "c">>, <<>>)

(***************************************************************************)
(* Build-side keys (build_discard_table.py, build_equity_table.py).        *)
(***************************************************************************)
\* build_discard_table.hand_key
bd_hand_key(h, b) ==
    LET combined == h \o b
        canon == bd_canonicalize_cards(combined)
        canon_hand == SubSeq(canon, 1, Len(h))
    IN  join(sorted(canon_hand))

\* Mutant of bd_flop_signature: the slice canon[len(hand):] is forgotten, the
\* hand cards are counted with the board
bd_flop_signature_allcards(b, h) ==
    IF b = <<>> THEN "empty"
    ELSE
    LET canon_board == bd_canonicalize_cards(h \o b)
        n == Len(canon_board)
        ranks == [i \in 1..n |-> canon_board[i][1]]
        suits == [i \in 1..n |-> canon_board[i][2]]
        rank_order(r) == IndexIn(RANKS, r)
        hi == RANKS[Max({rank_order(ranks[i]) : i \in 1..n}) + 1]
        lo == RANKS[Min({rank_order(ranks[i]) : i \in 1..n}) + 1]
        paired == IF Cardinality({ranks[i] : i \in 1..n}) < n THEN 1 ELSE 0
        max_suit == Max({Cardinality({i \in 1..n : suits[i] = s}) : s \in {suits[j] : j \in 1..n}})
        suit_tex == IF max_suit = 1 THEN "rainbow"
                    ELSE IF max_suit = 2 THEN "two" ELSE "mono"
        spread == rank_order(hi) - rank_order(lo)
        connect == IF spread <= 2 THEN "tight"
                   ELSE IF spread <= 4 THEN "med" ELSE "loose"
    IN  suit_tex \o "|paired:" \o IntStr(paired) \o "|hi:" \o hi
            \o "|spread:" \o IntStr(spread) \o "|connect:" \o connect

\* build_discard_table.flop_signature
bd_flop_signature(b, h) ==
    IF b = <<>> THEN "empty"
    ELSE
    LET combined == h \o b
        canon == bd_canonicalize_cards(combined)
        canon_board == SubSeq(canon, Len(h) + 1, Len(canon))
        n == Len(canon_board)
        ranks == [i \in 1..n |-> canon_board[i][1]]
        suits == [i \in 1..n |-> canon_board[i][2]]
        rank_order(r) == IndexIn(RANKS, r)
        hi == RANKS[Max({rank_order(ranks[i]) : i \in 1..n}) + 1]
        lo == RANKS[Min({rank_order(ranks[i]) : i \in 1..n}) + 1]
        paired == IF Cardinality({ranks[i] : i \in 1..n}) < n THEN 1 ELSE 0
        max_suit == Max({Cardinality({i \in 1..n : suits[i] = s}) : s \in {suits[j] : j \in 1..n}})
        suit_tex == IF max_suit = 1 THEN "rainbow"
                    ELSE IF max_suit = 2 THEN "two" ELSE "mono"
        spread == rank_order(hi) - rank_order(lo)
        connect == IF spread <= 2 THEN "tight"
                   ELSE IF spread <= 4 THEN "med" ELSE "loose"
    IN  suit_tex \o "|paired:" \o IntStr(paired) \o "|hi:" \o hi
            \o "|spread:" \o IntStr(spread) \o "|connect:" \o connect

\* Mutant of be_hand_board_key: the equity key is given the signature too
be_hand_board_key_withsig(h, b) ==
    LET canon == be_canonicalize_cards(h \o b)
        hh == SubSeq(canon, 1, Len(h))
        bb == SubSeq(canon, Len(h) + 1, Len(canon))
    IN  join(sorted(hh)) \o "|" \o join(sorted(bb)) \o "|" \o bd_flop_signature(b, h)

\* build_equity_table.hand_board_key
be_hand_board_key(h, b) ==
    LET combined == h \o b
        canon == be_canonicalize_cards(combined)
        hh == SubSeq(canon, 1, Len(h))
        bb == SubSeq(canon, Len(h) + 1, Len(canon))
    IN  join(sorted(hh)) \o "|" \o join(sorted(bb))

\* the discard-table key build_table writes: hand_key + "|" + flop_signature
bd_table_key(h, b) == bd_hand_key(h, b) \o "|" \o bd_flop_signature(b, h)

(***************************************************************************)
(* Runtime keys (player.py).                                               *)
(***************************************************************************)
\* Player._hand_key
Player_hand_key(h, b) ==
    LET combined == h \o b
        canon == Player_canonicalize_cards(combined)
        canon_hand == SubSeq(canon, 1, Len(h))
    IN  join(sorted(canon_hand))

\* Mutant of Player_flop_signature: the runtime "med" bucket drifts to spread <= 3
Player_flop_signature_drift(b, h) ==
    IF b = <<>> THEN "empty"
    ELSE
    LET canon == Player_canonicalize_cards(h \o b)
        canon_board == SubSeq(canon, Len(h) + 1, Len(canon))
        n == Len(canon_board)
        ranks == [i \in 1..n |-> canon_board[i][1]]
        suits == [i \in 1..n |-> canon_board[i][2]]
        rank_order(r) == IndexIn(RANKS, r)
        hi == RANKS[Max({rank_order(ranks[i]) : i \in 1..n}) + 1]
        lo == RANKS[Min({rank_order(ranks[i]) : i \in 1..n}) + 1]
        paired == IF Cardinality({ranks[i] : i \in 1..n}) < n THEN 1 ELSE 0
        max_suit == Max({Cardinality({i \in 1..n : suits[i] = s}) : s \in {suits[j] : j \in 1..n}})
        suit_tex == IF max_suit = 1 THEN "rainbow"
                    ELSE IF max_suit = 2 THEN "two" ELSE "mono"
        spread == rank_order(hi) - rank_order(lo)
        connect == IF spread <= 2 THEN "tight"
                   ELSE IF spread <= 3 THEN "med" ELSE "loose"
    IN  suit_tex \o "|paired:" \o IntStr(paired) \o "|hi:" \o hi
            \o "|spread:" \o IntStr(spread) \o "|connect:" \o connect

\* Player._flop_signature
Player_flop_signature(b, h) ==
    IF b = <<>> THEN "empty"
    ELSE
    LET combined == h \o b
        canon == Player_canonicalize_cards(combined)
        canon_board == SubSeq(canon, Len(h) + 1, Len(canon))
        n == Len(canon_board)
        ranks == [i \in 1..n |-> canon_board[i][1]]
        suits == [i \in 1..n |-> canon_board[i][2]]
        chars == <<"2", "3", "4", "5", "6", "7", "8", "9", "T", "J", "Q", "K", "A">>
        rank_order(r) == IndexIn(chars, r)
        hi == chars[Max({rank_order(ranks[i]) : i \in 1..n}) + 1]
        lo == chars[Min({rank_order(ranks[i]) : i \in 1..n}) + 1]
        paired == IF Cardinality({ranks[i] : i \in 1..n}) < n THEN 1 ELSE 0
        max_suit == Max({Cardinality({i \in 1..n : suits[i] = s}) : s \in {suits[j] : j \in 1..n}})
        suit_tex == IF max_suit = 1 THEN "rainbow"
                    ELSE IF max_suit = 2 THEN "two" ELSE "mono"
        spread == rank_order(hi) - rank_order(lo)
        connect == IF spread <= 2 THEN "tight"
                   ELSE IF spread <= 4 THEN "med" ELSE "loose"
    IN  suit_tex \o "|paired:" \o IntStr(paired) \o "|hi:" \o hi
            \o "|spread:" \o IntStr(spread) \o "|connect:" \o connect

\* Player._equity_key
Player_equity_key(h, b) ==
    LET combined == h \o b
        canon == Player_canonicalize_cards(combined)
        hh == SubSeq(canon, 1, Len(h))
        bb == SubSeq(canon, Len(h) + 1, Len(canon))
    IN  join(sorted(hh)) \o "|" \o join(sorted(bb))

\* the key Player._lookup_discard_table looks up
Player_lookup_key(h, b) == Player_hand_key(h, b) \o "|" \o Player_flop_signature(b, h)

(***************************************************************************)
(* The key machine: a hand and a board are given card by card, then one    *)
(* of the canonicalizers, the build path or the runtime path is applied    *)
(* to them and its result kept in out.                                     *)
(***************************************************************************)
NoOut == [op |-> "none"]

Impls == {"discard", "equity", "player"}

CanonBy(which, cards) ==
    CASE which = "discard" -> bd_canonicalize_cards(cards)
      [] which = "equity" -> be_canonicalize_cards(cards)
      [] which = "player" -> Player_canonicalize_cards(cards)

\* the card sequence the functions are given: hand cards followed by board cards
Given == hand \o board

InSeq(c, s) == \E i \in 1..Len(s) : s[i] = c

SuitsOf(s) == {s[i][2] : i \in 1..Len(s)}

\* a uniform relabelling of the suits of a card sequence
Relabel(pi, s) == [i \in 1..Len(s) |-> <<s[i][1], pi[s[i][2]]>>]

SuitPerms == Permutations({SUITS[i] : i \in 1..Len(SUITS)})

InitKeys ==
    /\ hand = <<>>
    /\ board = <<>>
    /\ out = NoOut

DealHand(c) ==
    /\ out.op = "none"
    /\ board = <<>>
    /\ Len(hand) < MaxHand
    /\ ~InSeq(c, hand)
    /\ hand' = Append(hand, c)
    /\ UNCHANGED <<board, out, keyFrame>>

DealBoard(c) ==
    /\ out.op = "none"
    /\ Len(hand) >= MinHand
    /\ Len(board) < MaxBoard
    /\ ~InSeq(c, hand) /\ ~InSeq(c, board)
    /\ board' = Append(board, c)
    /\ UNCHANGED <<hand, out, keyFrame>>

\* canonicalize_cards(hand + board), by one of its three copies
Canonicalize(which) ==
    /\ out.op = "none"
    /\ Len(hand) >= MinHand
    /\ out' = [op |-> "canon", impl |-> which, val |-> CanonBy(which, Given)]
    /\ UNCHANGED <<hand, board, keyFrame>>

\* canonicalize_cards applied to its own output
Recanonicalize ==
    /\ out.op = "canon"
    /\ out' = [op |-> "canon2", impl |-> out.impl, prev |-> out.val,
               val |-> CanonBy(out.impl, out.val)]
    /\ UNCHANGED <<hand, board, keyFrame>>

\* the build path: the keys build_table writes for (hand, board)
BuildKeys ==
    /\ out.op = "none"
    /\ Len(hand) >= MinHand
    /\ out' = [op |-> "build", dkey |-> bd_table_key(hand, board),
               ekey |-> be_hand_board_key(hand, board)]
    /\ UNCHANGED <<hand, board, keyFrame>>

\* the runtime path: the keys the Player looks up for (hand, board)
LookupKeys ==
    /\ out.op = "none"
    /\ Len(hand) >= MinHand
    /\ out' = [op |-> "lookup", dkey |-> Player_lookup_key(hand, board),
               ekey |-> Player_equity_key(hand, board)]
    /\ UNCHANGED <<hand, board, keyFrame>>

NextKeys ==
    \/ \E c \in Pool : DealHand(c)
    \/ \E c \in Pool : DealBoard(c)
    \/ \E which \in Impls : Canonicalize(which)
    \/ Recanonicalize
    \/ BuildKeys
    \/ LookupKeys

(***************************************************************************)
(* The build tools: estimate_equity (both copies), best_discard and the    *)
(* build_table of the discard table.  The deck is a bag of cards:          *)
(* deck.shuffle() followed by deck.deal(n) takes any n cards out of it.    *)
(* The hand-ranking oracle (pb.evaluate) is external: the comparison of    *)
(* the two scores is any of >, == and <.                                   *)
(***************************************************************************)
\* pb.Deck().cards: the full deck
DeckCards == { PoolOrder[k] : k \in 1..(IF DeckSize < Len(PoolOrder) THEN DeckSize ELSE Len(PoolOrder)) }

SeqToSet(s) == { s[k] : k \in 1..Len(s) }

\* the final board size a copy of estimate_equity completes the board to
FinalBoardOf(im) == IF im = "equity" THEN FINAL_BOARD_CARDS ELSE DiscardFinalBoard

\* deck.cards = [c for c in deck.cards if c not in used]
FilterDeck(cards, used) == SetToBag(cards \ used)

\* deck.deal(n) after deck.shuffle(), n >= 0: the hands of n cards it can return
Deal(d, n) == { b \in SubBag(d) : BagCardinality(b) = n }

\* deck.deal(n), n < 0, where the library slices (cards[:n]): all but -n cards
DealNegative(d, n) == { b \in SubBag(d) : BagCardinality(b) = Max({BagCardinality(d) + n, 0}) }

\* Mutant of RestoreDeck: only the opponent's cards are put back
RestoreDeck_oppOnly(d, o, dr) == d (+) o

\* deck.cards.extend(opp + draw)
RestoreDeck(d, o, dr) == d (+) o (+) dr

\* Mutant of CountTrial: a tie is counted as a win and as a tie
CountTrial_both(w, t, cmp) ==
    [wins |-> IF cmp \in {"gt", "eq"} THEN w + 1 ELSE w,
     ties |-> IF cmp = "eq" THEN t + 1 ELSE t]

\* if my_score > opp_score: wins += 1 / elif my_score == opp_score: ties += 1
CountTrial(w, t, cmp) ==
    [wins |-> IF cmp = "gt" THEN w + 1 ELSE w,
     ties |-> IF cmp = "gt" THEN t ELSE IF cmp = "eq" THEN t + 1 ELSE t]

\* A float the estimator returns, as the fraction num/den (den > 0)
Frac(n, d) == [num |-> n, den |-> d]

NoResult == [num |-> 0, den |-> 0]

\* Mutant of FracGreater: a >= b, so the last of several best discards wins
FracGreater_orEqual(a, b) == a.num * b.den >= b.num * a.den

\* a > b on two returned floats
FracGreater(a, b) == a.num * b.den > b.num * a.den

\* return (wins + 0.5 * ties) / trials if trials else 0.0
equity_result(w, t, n) == IF n # 0 THEN Frac(2 * w + t, 2 * n) ELSE Frac(0, 1)

\* Mutant of InitialBest: best_score starts at 0.0
InitialBest_zero == [idx |-> None, score |-> Frac(0, 1)]

\* best_idx, best_score = None, -1.0
InitialBest == [idx |-> None, score |-> Frac(-1, 1)]

\* kept = [c for i, c in enumerate(hand3) if i != di]   (di is 0-based)
KeptOf(hand3, d) == SubSeq(hand3, 1, d) \o SubSeq(hand3, d + 2, Len(hand3))

\* Mutant of Overlaps: the board is skipped only when all its cards are used
Overlaps_all(hand3, brd) == \A k \in 1..Len(brd) : brd[k] \in SeqToSet(hand3)

\* if any(c in used for c in board): continue
Overlaps(hand3, brd) == \E k \in 1..Len(brd) : brd[k] \in SeqToSet(hand3)

\* The (hand3, board) pairs build_table visits, hand by hand: the hands are
\* hands of unique_canonical_hands(deck), the boards the first 3 or 4 cards of
\* 4-card combinations of the deck, all listed in deck order.  The second pair
\* shares a card with its hand.
BuildPairs ==
    << [hand3 |-> << <<"T", "s">>, <<"J", "h">>, <<"K", "d">> >>,
        board |-> << <<"2", "d">>, <<"3", "c">>, <<"9", "h">> >>],
       [hand3 |-> << <<"T", "s">>, <<"J", "h">>, <<"K", "d">> >>,
        board |-> << <<"9", "h">>, <<"J", "h">>, <<"Q", "s">>, <<"A", "c">> >>],
       [hand3 |-> << <<"Q", "s">>, <<"K", "s">>, <<"A", "s">> >>,
        board |-> << <<"2", "d">>, <<"9", "h">>, <<"T", "h">>, <<"A", "c">> >>] >>

\* The inputs of the direct calls of estimate_equity: a hand of hs cards and a
\* board of bs cards, up to one card more than the final board.
DirectInputs ==
    { [impl |-> im, hand |-> SubSeq(PoolOrder, 1, hs), board |-> SubSeq(PoolOrder, hs + 1, hs + bs)] :
        im \in {"discard", "equity"}, hs \in MinHand..MaxHand, bs \in 3..(FINAL_BOARD_CARDS + 1) }

\* the deck holds the cards of a trial (always so with the 52 cards of pb.Deck)
EnoughCards(hnd, brd, im) ==
    LET need == FinalBoardOf(im) - Len(brd)
    IN  Cardinality(DeckCards \ (SeqToSet(hnd) \cup SeqToSet(brd))) >= OppCards + Max({need, 0})

NoCur == [hand3 |-> <<>>, board |-> <<>>, key |-> ""]

NoSeen == [hand |-> <<>>, canons |-> {}]

InitBuild ==
    /\ pc = "idle"
    /\ eq_table = <<>>
    /\ seen = NoSeen
    /\ scores = <<>>
    /\ queue = <<>>
    /\ cur = NoCur
    /\ di = 0
    /\ best = InitialBest
    /\ table = <<>>
    /\ caller = "none"
    /\ impl = "none"
    /\ kept = <<>>
    /\ e_board = <<>>
    /\ trials = 0
    /\ deck = EmptyBag
    /\ need_board = 0
    /\ trial = 0
    /\ wins = 0
    /\ ties = 0
    /\ opp = EmptyBag
    /\ draw = EmptyBag
    /\ result = NoResult

\* estimate_equity up to its loop: the deck without the known cards, need_board,
\* and (build_equity_table only) the ValueError for a board beyond the final one
EqEnter(who, im, hnd, brd, t) ==
    LET need == FinalBoardOf(im) - Len(brd)
    IN  /\ caller' = who
        /\ impl' = im
        /\ kept' = hnd
        /\ e_board' = brd
        /\ trials' = t
        /\ deck' = FilterDeck(DeckCards, SeqToSet(hnd) \cup SeqToSet(brd))
        /\ need_board' = need
        /\ trial' = 0
        /\ wins' = 0
        /\ ties' = 0
        /\ opp' = EmptyBag
        /\ draw' = EmptyBag
        /\ result' = NoResult
        /\ pc' = IF im = "equity" /\ need < 0 THEN "eq_error" ELSE "eq_loop"

\* estimate_equity(hand, board, trials) called on its own; the ValueError of
\* build_equity_table comes before any card is dealt
EqCallDirect(inp, t) ==
    /\ pc = "idle"
    /\ \/ EnoughCards(inp.hand, inp.board, inp.impl)
       \/ inp.impl = "equity" /\ Len(inp.board) > FinalBoardOf(inp.impl)
    /\ EqEnter("direct", inp.impl, inp.hand, inp.board, t)
    /\ UNCHANGED <<buildFrame, buildVars>>

\* one trial, first half: deck.shuffle(); opp = deck.deal(2); draw = deck.deal(need_board)
EqDeal ==
    /\ pc = "eq_loop"
    /\ trial < trials
    /\ \E o \in Deal(deck, OppCards) :
         \E d \in (IF need_board >= 0 THEN Deal(deck (-) o, need_board)
                   ELSE DealNegative(deck (-) o, need_board)) :
            /\ opp' = o
            /\ draw' = d
            /\ deck' = (deck (-) o) (-) d
    /\ pc' = "eq_dealt"
    /\ UNCHANGED <<buildFrame, buildVars, caller, impl, kept, e_board, trials,
                   need_board, trial, wins, ties, result>>

\* opp = deck.deal(2), then deck.deal(need_board) with need_board < 0 where the
\* library rejects the count: the opponent's cards are out of the deck
EqDealRejected ==
    /\ pc = "eq_loop"
    /\ trial < trials
    /\ need_board < 0
    /\ \E o \in Deal(deck, OppCards) :
         /\ opp' = o
         /\ deck' = deck (-) o
    /\ pc' = "eq_crash"
    /\ UNCHANGED <<buildFrame, buildVars, caller, impl, kept, e_board, trials,
                   need_board, trial, wins, ties, draw, result>>

\* one trial, second half: the two scores are compared, the counters updated
\* and the dealt cards put back
EqScore(cmp) ==
    /\ pc = "eq_dealt"
    /\ wins' = CountTrial(wins, ties, cmp).wins
    /\ ties' = CountTrial(wins, ties, cmp).ties
    /\ deck' = RestoreDeck(deck, opp, draw)
    /\ opp' = EmptyBag
    /\ draw' = EmptyBag
    /\ trial' = trial + 1
    /\ pc' = "eq_loop"
    /\ UNCHANGED <<buildFrame, buildVars, caller, impl, kept, e_board, trials,
                   need_board, result>>

\* the return of estimate_equity
EqReturn ==
    /\ pc = "eq_loop"
    /\ trial = trials
    /\ result' = equity_result(wins, ties, trials)
    /\ pc' = "eq_ret"
    /\ UNCHANGED <<buildFrame, buildVars, caller, impl, kept, e_board, trials, deck,
                   need_board, trial, wins, ties, opp, draw>>

\* build_discard_table.build_table up to its loop over the hands and boards
BtStart(t) ==
    /\ pc = "idle"
    /\ queue' = BuildPairs
    /\ table' = <<>>
    /\ trials' = t
    /\ pc' = "bt_loop"
    /\ UNCHANGED <<buildFrame, cur, di, best, scores, caller, impl, kept, e_board, deck,
                   need_board, trial, wins, ties, opp, draw, result>>

\* the next (hand3, board): skipped when the board shares a card with the hand,
\* else its key is formed and best_discard entered
BtNext ==
    /\ pc = "bt_loop"
    /\ queue # <<>>
    /\ queue' = Tail(queue)
    /\ LET p == Head(queue)
       IN  IF Overlaps(p.hand3, p.board)
           THEN UNCHANGED <<pc, cur, di, best, scores>>
           ELSE /\ cur' = [hand3 |-> p.hand3, board |-> p.board,
                           key |-> bd_table_key(p.hand3, p.board)]
                /\ di' = 0
                /\ best' = InitialBest
                /\ scores' = <<>>
                /\ pc' = "bd_loop"
    /\ UNCHANGED <<buildFrame, table, eqVars>>

\* best_discard: score = estimate_equity(kept, board, trials) for discard di
BdCall ==
    /\ pc = "bd_loop"
    /\ di < MaxHand
    /\ EqEnter("best_discard", "discard", KeptOf(cur.hand3, di), cur.board, trials)
    /\ UNCHANGED <<buildFrame, buildVars>>

\* best_discard: if score > best_score: best_score, best_idx = score, di
BdCompare ==
    /\ pc = "eq_ret"
    /\ caller = "best_discard"
    /\ best' = IF FracGreater(result, best.score)
               THEN [idx |-> di, score |-> result] ELSE best
    /\ scores' = Append(scores, [kept |-> kept, score |-> result])
    /\ di' = di + 1
    /\ pc' = "bd_loop"
    /\ UNCHANGED <<buildFrame, queue, cur, table, eqVars>>

\* best_discard: return best_idx
BdReturn ==
    /\ pc = "bd_loop"
    /\ di = MaxHand
    /\ pc' = "bd_ret"
    /\ UNCHANGED <<buildFrame, buildVars, eqVars>>

\* build_table: table[key] = di
BtStore ==
    /\ pc = "bd_ret"
    /\ table' = (cur.key :> best.idx) @@ table
    /\ pc' = "bt_loop"
    /\ UNCHANGED <<buildFrame, queue, cur, di, best, scores, eqVars>>

\* build_table: return table
BtReturn ==
    /\ pc = "bt_loop"
    /\ queue = <<>>
    /\ pc' = "bt_ret"
    /\ UNCHANGED <<buildFrame, buildVars, eqVars>>

\* The (hand, board) candidates build_equity_table.build_table meets in a
\* build for hands of 2 and boards of 3 cards: for each hand of
\* unique_canonical_hands(deck, 2) the boards of all_boards, before
\* unique_canonical_boards filters them, all listed in deck order.  For the
\* first hand the second board shares a card with the hand and the third is a
\* suit relabelling of the first.
EquityPairs ==
    << [hand3 |-> << <<"T", "s">>, <<"J", "h">> >>,
        board |-> << <<"3", "c">>, <<"9", "h">>, <<"K", "s">> >>],
       [hand3 |-> << <<"T", "s">>, <<"J", "h">> >>,
        board |-> << <<"9", "h">>, <<"J", "h">>, <<"K", "s">> >>],
       [hand3 |-> << <<"T", "s">>, <<"J", "h">> >>,
        board |-> << <<"3", "c">>, <<"9", "h">>, <<"K", "d">> >>],
       [hand3 |-> << <<"K", "s">>, <<"A", "s">> >>,
        board |-> << <<"3", "c">>, <<"9", "h">>, <<"K", "d">> >>] >>

\* canon = "_".join(sorted(canonicalize_cards(board)))
board_canon(brd) == join(sorted(be_canonicalize_cards(brd)))

\* build_equity_table.build_table up to its loop over the hands
BeStart(t) ==
    /\ pc = "idle"
    /\ queue' = EquityPairs
    /\ eq_table' = <<>>
    /\ seen' = NoSeen
    /\ trials' = t
    /\ pc' = "be_loop"
    /\ UNCHANGED <<outsideBuild, cur, di, best, table, scores, caller, impl, kept, e_board, deck,
                   need_board, trial, wins, ties, opp, draw, result>>

\* the next board of unique_canonical_boards for the current hand: left out
\* when it shares a card with the hand or its canonical form was seen, else
\* key = hand_board_key(hand, board) and estimate_equity is entered
BeNext ==
    /\ pc = "be_loop"
    /\ queue # <<>>
    /\ queue' = Tail(queue)
    /\ LET p == Head(queue)
           sn == IF seen.hand = p.hand3 THEN seen ELSE [hand |-> p.hand3, canons |-> {}]
       IN  IF Overlaps(p.hand3, p.board)
           THEN /\ seen' = sn
                /\ UNCHANGED <<pc, cur, eqVars>>
           ELSE IF board_canon(p.board) \in sn.canons
           THEN /\ seen' = sn
                /\ UNCHANGED <<pc, cur, eqVars>>
           ELSE /\ seen' = [sn EXCEPT !.canons = @ \cup {board_canon(p.board)}]
                /\ cur' = [hand3 |-> p.hand3, board |-> p.board,
                           key |-> be_hand_board_key(p.hand3, p.board)]
                /\ EqEnter("build_equity", "equity", p.hand3, p.board, trials)
    /\ UNCHANGED <<outsideBuild, di, best, table, scores, eq_table>>

\* build_equity_table.build_table: table[key] = eq
BeStore ==
    /\ pc = "eq_ret"
    /\ caller = "build_equity"
    /\ eq_table' = (cur.key :> result) @@ eq_table
    /\ pc' = "be_loop"
    /\ UNCHANGED <<outsideBuild, buildVars, eqVars, seen>>

\* build_equity_table.build_table: return table
BeReturn ==
    /\ pc = "be_loop"
    /\ queue = <<>>
    /\ pc' = "be_ret"
    /\ UNCHANGED <<outsideBuild, buildVars, eqVars, ebVars>>

NextBuild ==
    \/ \E t \in 0..MaxTrials : BeStart(t)
    \/ BeNext
    \/ BeStore
    \/ BeReturn
    \/ \E inp \in DirectInputs, t \in 0..MaxTrials : EqCallDirect(inp, t)
    \/ EqDeal
    \/ EqDealRejected
    \/ \E cmp \in {"gt", "eq", "lt"} : EqScore(cmp)
    \/ EqReturn
    \/ \E t \in 0..MaxTrials : BtStart(t)
    \/ BtNext
    \/ BdCall
    \/ BdCompare
    \/ BdReturn
    \/ BtStore
    \/ BtReturn

(***************************************************************************)
(* The hand classifier (cc_py_bot_v1/poker_utils.py).  A card is the pair  *)
(* <<rank, suit>> of integers ccbot.card_mapper produces: rank 2..14,      *)
(* suit h=0, s=1, d=2, c=3.                                                *)
(***************************************************************************)
\* Input enumeration: the cards the classifier's inputs are drawn from.  Four
\* aces, three kings, a queen, and 2..6 in two suits: every category, the
\* wheel, the ace that does not wrap and the same-suit straight occur.
ClassifierOrder ==
    << <<14, 1>>, <<14, 0>>, <<14, 2>>, <<13, 1>>, <<13, 0>>, <<14, 3>>,
       <<13, 2>>, <<2, 1>>, <<3, 1>>, <<4, 1>>, <<5, 1>>, <<12, 1>>,
       <<2, 0>>, <<3, 0>>, <<4, 0>>, <<5, 0>>, <<6, 1>>, <<6, 0>>,
       <<12, 0>>, <<10, 1>>, <<11, 1>>, <<10, 0>> >>

ClassifierCards ==
    { ClassifierOrder[k] :
        k \in 1..(IF ClassifierPool < Len(ClassifierOrder) THEN ClassifierPool
                  ELSE Len(ClassifierOrder)) }

\* Mutant of has_straight: the ace is not counted low
has_straight_high_ace(rank_set) ==
    \E start \in 1..10 : \A k \in 0..4 : (start + k) \in rank_set

\* poker_utils.has_straight
has_straight(rank_set) ==
    LET rs == IF 14 \in rank_set THEN rank_set \cup {1} ELSE rank_set
    IN  \E start \in 1..10 : \A k \in 0..4 : (start + k) \in rs

\* Mutant of straight_draw: the ace is not counted low
straight_draw_high_ace(rank_set) ==
    \E start \in 1..10 :
        LET hits == Cardinality({k \in 0..4 : (start + k) \in rank_set})
        IN  hits = 4

\* poker_utils.straight_draw
straight_draw(rank_set) ==
    LET rs == IF 14 \in rank_set THEN rank_set \cup {1} ELSE rank_set
    IN  \E start \in 1..10 :
            LET hits == Cardinality({k \in 0..4 : (start + k) \in rs})
            IN  hits = 4

\* Counter(ranks)[r] and Counter(suits)[s]
rank_counter(cs, r) == Cardinality({c \in cs : c[1] = r})

suit_counter(cs, s) == Cardinality({c \in cs : c[2] = s})

\* counts = sorted(rank_counter.values(), reverse=True), over the ranks rs
RECURSIVE sorted_counts(_, _)
sorted_counts(cs, rs) ==
    IF rs = {} THEN <<>>
    ELSE LET r == CHOOSE x \in rs : \A y \in rs : rank_counter(cs, y) <= rank_counter(cs, x)
         IN  <<rank_counter(cs, r)>> \o sorted_counts(cs, rs \ {r})

\* Mutant of made_counting: the pair asks for a rank of count >= 3
made_counting_pair3(counts) ==
    [Pair |-> IF counts[1] >= 3 THEN 2 ELSE 0,
     TwoPair |-> IF Len(counts) >= 2 /\ counts[1] >= 2 /\ counts[2] >= 2 THEN 2 ELSE 0,
     ThreeOfAKind |-> IF counts[1] >= 3 THEN 2 ELSE 0,
     FourOfAKind |-> IF counts[1] >= 4 THEN 2 ELSE 0,
     FullHouse |-> IF Len(counts) >= 2 /\ counts[1] >= 3 /\ counts[2] >= 2 THEN 2 ELSE 0]

\* Mutant of made_counting: the full house asks for two ranks of count >= 3
made_counting_fh(counts) ==
    [Pair |-> IF counts[1] >= 2 THEN 2 ELSE 0,
     TwoPair |-> IF Len(counts) >= 2 /\ counts[1] >= 2 /\ counts[2] >= 2 THEN 2 ELSE 0,
     ThreeOfAKind |-> IF counts[1] >= 3 THEN 2 ELSE 0,
     FourOfAKind |-> IF counts[1] >= 4 THEN 2 ELSE 0,
     FullHouse |-> IF Len(counts) >= 2 /\ counts[1] >= 3 /\ counts[2] >= 3 THEN 2 ELSE 0]

\* the made flags of the counting hands (counts[0] is counts[1] here)
made_counting(counts) ==
    [Pair |-> IF counts[1] >= 2 THEN 2 ELSE 0,
     TwoPair |-> IF Len(counts) >= 2 /\ counts[1] >= 2 /\ counts[2] >= 2 THEN 2 ELSE 0,
     ThreeOfAKind |-> IF counts[1] >= 3 THEN 2 ELSE 0,
     FourOfAKind |-> IF counts[1] >= 4 THEN 2 ELSE 0,
     FullHouse |-> IF Len(counts) >= 2 /\ counts[1] >= 3 /\ counts[2] >= 2 THEN 2 ELSE 0]

\* suited_ranks = {r for r, s in cards if s == suit}
suited_ranks(cs, s) == {c[1] : c \in {x \in cs : x[2] = s}}

\* Mutant of straight_flush_made: a straight and a flush, in any suits
straight_flush_made_any(cs, straight2, flush_suits) ==
    straight2 /\ flush_suits # {}

\* the made straight flush: a straight and a flush, and a flush suit whose
\* ranks alone hold a straight
straight_flush_made(cs, straight2, flush_suits) ==
    /\ straight2
    /\ flush_suits # {}
    /\ \E s \in flush_suits : has_straight(suited_ranks(cs, s))

\* Mutant of draws_open: draws are still computed with MAX_CARDS cards
draws_open_le(len, max_cards) == len <= max_cards

\* if len(cards) < MAX_CARDS: the draws are computed
draws_open(len, max_cards) == len < max_cards

\* Mutant of full_house_draw: only two or more pair ranks make the draw
full_house_draw_pairs(cs) ==
    LET unique_ranks == {c[1] : c \in cs}
        pair_ranks == {r \in unique_ranks : rank_counter(cs, r) >= 2}
    IN  Cardinality(pair_ranks) >= 2

\* the full house draw: trips and another rank, else two or more pair ranks
full_house_draw(cs) ==
    LET unique_ranks == {c[1] : c \in cs}
        trips_ranks == {r \in unique_ranks : rank_counter(cs, r) >= 3}
        pair_ranks == {r \in unique_ranks : rank_counter(cs, r) >= 2}
    IN  IF trips_ranks # {} /\ Cardinality(unique_ranks) >= 2 THEN TRUE
        ELSE Cardinality(pair_ranks) >= 2

\* poker_utils.evaluate_poker_hands(hand_cards, board_cards, MAX_CARDS) on
\* cs = hand_cards + board_cards
evaluate_poker_hands(cs, max_cards) ==
    LET unique_ranks == {c[1] : c \in cs}
        suit_keys == {c[2] : c \in cs}
        counts == sorted_counts(cs, unique_ranks)
        len == Cardinality(cs)
        \* made hands
        cnt == made_counting(counts)
        straight2 == has_straight(unique_ranks)
        flush_suits == {s \in suit_keys : suit_counter(cs, s) >= 5}
        flush2 == flush_suits # {}
        sflush2 == straight_flush_made(cs, straight2, flush_suits)
        \* draws
        drawing == draws_open(len, max_cards)
        fh_draw == full_house_draw(cs)
        flush_suits_d == {s \in suit_keys : suit_counter(cs, s) >= 4}
        sflush_draw == \E s \in suit_keys :
                          suit_counter(cs, s) >= 4 /\ straight_draw(suited_ranks(cs, s))
    IN  [Pair |-> IF drawing /\ cnt.Pair = 0 THEN 1 ELSE cnt.Pair,
         TwoPair |-> IF drawing /\ cnt.TwoPair = 0 /\ counts[1] = 2 /\ len >= 3
                     THEN 1 ELSE cnt.TwoPair,
         ThreeOfAKind |-> IF drawing /\ cnt.ThreeOfAKind = 0 /\ counts[1] = 2
                          THEN 1 ELSE cnt.ThreeOfAKind,
         Straight |-> IF straight2 THEN 2
                      ELSE IF drawing /\ straight_draw(unique_ranks) THEN 1 ELSE 0,
         Flush |-> IF flush2 THEN 2
                   ELSE IF drawing /\ flush_suits_d # {} THEN 1 ELSE 0,
         FullHouse |-> IF drawing /\ cnt.FullHouse = 0 /\ fh_draw THEN 1 ELSE cnt.FullHouse,
         FourOfAKind |-> IF drawing /\ cnt.FourOfAKind = 0 /\ counts[1] = 3
                         THEN 1 ELSE cnt.FourOfAKind,
         StraightFlush |-> IF sflush2 THEN 2
                           ELSE IF drawing /\ sflush_draw THEN 1 ELSE 0]

NoFlags == [evaluated |-> FALSE]

InitClass ==
    /\ ev_cards = {}
    /\ flags = NoFlags

\* one more card is known (dealt to the hand or turned on the board)
Reveal(c) ==
    /\ c \notin ev_cards
    /\ Cardinality(ev_cards) < MAX_CARDS
    /\ ev_cards' = ev_cards \cup {c}
    /\ flags' = NoFlags
    /\ UNCHANGED classFrame

\* MyBot.get_action: poker_hands = evaluate_poker_hands(my_cards, board_cards)
Evaluate ==
    /\ flags = NoFlags
    /\ Cardinality(ev_cards) >= 2
    /\ flags' = evaluate_poker_hands(ev_cards, MAX_CARDS)
    /\ UNCHANGED <<ev_cards, classFrame>>

NextClass ==
    \/ \E c \in ClassifierCards : Reveal(c)
    \/ Evaluate

(***************************************************************************)
(* The Player (python_skeleton_vNB/player.py): loading the tables at       *)
(* startup and looking them up in get_action.                              *)
(*                                                                         *)
(* A Python object read from a pickle file is a record: type "dict" with   *)
(* its items (a function from keys to values), type "data" for a dict     *)
(* listed as its (key, value) pairs, or type "list" with its length, for  *)
(* an object that is not a mapping.                                        *)
(***************************************************************************)
PyDict(f) == [type |-> "dict", items |-> f, pairs |-> <<>>, len |-> 0]

PyData(ps) == [type |-> "data", items |-> <<>>, pairs |-> ps, len |-> 0]

PyList(n) == [type |-> "list", items |-> <<>>, pairs |-> <<>>, len |-> n]

PyNone == [type |-> "None", items |-> <<>>, pairs |-> <<>>, len |-> 0]

\* bool(obj)
Truthy(obj) ==
    CASE obj.type = "dict" -> DOMAIN obj.items # {}
      [] obj.type = "data" -> obj.pairs # <<>>
      [] obj.type = "list" -> obj.len > 0
      [] OTHER -> FALSE

\* obj.get exists (else AttributeError)
HasGet(obj) == obj.type \in {"dict", "data"}

\* isinstance(obj, dict)
IsDict(obj) == obj.type \in {"dict", "data"}

\* the state of a file: absent, open() fails, pickle.load fails, or an object
FileMissing == [st |-> "missing", obj |-> PyNone]

FileUnreadable == [st |-> "unreadable", obj |-> PyNone]

FileCorrupt == [st |-> "corrupt", obj |-> PyNone]

FileOk(o) == [st |-> "ok", obj |-> o]

\* Input enumeration: the calls of get_action.  The 3-card hand the stored
\* entries are for, one with a pair, one with two suited cards, and a 2-card
\* hand after the discard.
StoredInput ==
    [hand |-> << <<"A", "s">>, <<"T", "h">>, <<"2", "d">> >>,
     board |-> << <<"A", "c">>, <<"K", "s">>, <<"Q", "s">> >>, discard |-> TRUE]

PlayerInputs ==
    { StoredInput,
      [hand |-> << <<"K", "s">>, <<"3", "c">>, <<"K", "d">> >>,
       board |-> << <<"A", "c">>, <<"9", "h">>, <<"Q", "s">> >>, discard |-> TRUE],
      [hand |-> << <<"4", "d">>, <<"J", "h">>, <<"7", "h">> >>,
       board |-> << <<"A", "c">>, <<"9", "h">>, <<"Q", "s">> >>, discard |-> TRUE],
      [hand |-> << <<"A", "s">>, <<"T", "h">> >>,
       board |-> << <<"A", "c">>, <<"K", "s">>, <<"Q", "s">> >>, discard |-> FALSE] }

\* Input enumeration: what discard_table.pkl can unpickle to
DiscardObjects ==
    { PyDict(<<>>),
      PyDict(Player_lookup_key(StoredInput.hand, StoredInput.board) :> 2),
      PyList(0),
      PyList(2) }

DiscardFiles ==
    {FileMissing, FileUnreadable, FileCorrupt} \cup {FileOk(o) : o \in DiscardObjects}

\* Input enumeration: what a per-stage equity file can unpickle to
StageObjects ==
    { PyDict(<<>>),
      PyDict(Player_equity_key(StoredInput.hand, StoredInput.board) :> Frac(1, 2)),
      PyList(0),
      PyList(2) }

\* a key of the combined file: a tuple (its elements listed) or something else
TupleKey(t) == [tuple |-> TRUE, elems |-> t]

OtherKey == [tuple |-> FALSE, elems |-> <<>>]

\* Input enumeration: what equity_tables.pkl can unpickle to
CombinedObjects ==
    { PyList(2), PyData(<<>>) }
    \cup { PyData(<< [key |-> TupleKey(<<3, 3>>), val |-> o] >>) : o \in StageObjects }
    \cup { PyData(<< [key |-> k, val |-> PyDict(<<>>)] >>) : k \in {OtherKey, TupleKey(<<3>>)} }

CombinedFiles ==
    {FileMissing, FileUnreadable, FileCorrupt} \cup {FileOk(o) : o \in CombinedObjects}

\* a per-stage file: no such file; a name whose sizes do not parse; or the
\* file equity_table_h3_b3.pkl in some state
NoStageFile == [present |-> FALSE, name_ok |-> FALSE, key |-> <<>>, file |-> FileMissing]

StageFiles ==
    { NoStageFile,
      [present |-> TRUE, name_ok |-> FALSE, key |-> <<>>, file |-> FileOk(PyDict(<<>>))] }
    \cup { [present |-> TRUE, name_ok |-> TRUE, key |-> <<3, 3>>, file |-> f] :
             f \in {FileUnreadable, FileCorrupt} \cup {FileOk(o) : o \in StageObjects} }

\* Player._load_discard_table, on self.discard_table = {}
load_discard_table(f) ==
    CASE f.st = "missing" -> PyDict(<<>>)
      [] f.st = "ok" -> f.obj
      [] OTHER -> PyDict(<<>>)

\* Player._load_equity_tables, the combined file: the entries whose key is a
\* tuple of length 2, each stored as it is
RECURSIVE load_pairs(_, _)
load_pairs(ps, tabs) ==
    IF ps = <<>> THEN tabs
    ELSE LET e == Head(ps)
         IN  load_pairs(Tail(ps),
                        IF e.key.tuple /\ Len(e.key.elems) = 2
                        THEN (e.key.elems :> e.val) @@ tabs
                        ELSE tabs)

load_combined(f) ==
    IF f.st = "ok" /\ IsDict(f.obj) THEN load_pairs(f.obj.pairs, <<>>) ELSE <<>>

\* Player._load_equity_tables, the per-stage files, after the combined file
load_stage(sf, tabs) ==
    IF sf.present /\ sf.name_ok /\ sf.file.st = "ok"
    THEN (sf.key :> sf.file.obj) @@ tabs
    ELSE tabs

\* Mutant of get_effect: the lookup stores the miss (setdefault)
get_effect_setdefault(tbl, key) ==
    IF tbl.type = "dict" /\ key \notin DOMAIN tbl.items
    THEN PyDict((key :> -1) @@ tbl.items)
    ELSE tbl

\* dict.get(key) leaves the dict as it is
get_effect(tbl, key) == tbl

PlNone == [raised |-> FALSE, hit |-> FALSE, val |-> 0, frac |-> NoResult]

PlRaised == [raised |-> TRUE, hit |-> FALSE, val |-> 0, frac |-> NoResult]

\* Player._lookup_discard_table
lookup_discard_table(tbl, hnd, brd) ==
    IF ~Truthy(tbl) \/ hnd = <<>> THEN PlNone
    ELSE IF ~HasGet(tbl) THEN PlRaised
    ELSE LET key == Player_lookup_key(hnd, brd)
         IN  IF key \in DOMAIN tbl.items
             THEN [raised |-> FALSE, hit |-> TRUE, val |-> tbl.items[key], frac |-> NoResult]
             ELSE PlNone

\* Player._equity_lookup
equity_lookup(tabs, hnd, brd) ==
    LET key == Player_equity_key(hnd, brd)
        k == <<Len(hnd), Len(brd)>>
    IN  IF k \notin DOMAIN tabs THEN PlNone
        ELSE IF ~Truthy(tabs[k]) THEN PlNone
        ELSE IF ~HasGet(tabs[k]) THEN PlRaised
        ELSE IF key \in DOMAIN tabs[k].items
             THEN [raised |-> FALSE, hit |-> TRUE, val |-> 0, frac |-> tabs[k].items[key]]
             ELSE PlNone

\* abs(a - b)
AbsDiff(a, b) == IF a >= b THEN a - b ELSE b - a

\* Player._heuristic_discard on a hand of at least 3 cards: the 0-based index
\* of the card to discard
heuristic_discard(hnd, brd) ==
    LET n == Len(hnd)
        idx == 1..n
        ranks == [i \in idx |-> hnd[i][1]]
        suits == [i \in idx |-> hnd[i][2]]
        rank_counts(r) == Cardinality({i \in idx : ranks[i] = r})
        \* the first rank, in order of first occurrence, with count >= 2
        paired == {i \in idx : rank_counts(ranks[i]) >= 2}
        pair_rank == ranks[Min(paired)]
        candidates == {i \in idx : ranks[i] # pair_rank}
        values == [i \in idx |-> IndexIn(RANKS, ranks[i])]
        lowest == Min({i \in idx : \A j \in idx : values[i] <= values[j]})
        \* Counter(suits + board suits); max() keeps the first of the largest
        all_suits == suits \o [k \in 1..Len(brd) |-> brd[k][2]]
        suit_counts(x) == Cardinality({k \in 1..Len(all_suits) : all_suits[k] = x})
        best_suit == all_suits[Min({k \in 1..Len(all_suits) :
                        \A j \in 1..Len(all_suits) :
                            suit_counts(all_suits[j]) <= suit_counts(all_suits[k])})]
        suited_idxs == {i \in idx : suits[i] = best_suit}
        off_suit == idx \ suited_idxs
        \* the first pair (i, j), i < j, of strictly smallest gap
        pairs == {pr \in idx \X idx : pr[1] < pr[2]}
        gap(pr) == AbsDiff(values[pr[1]], values[pr[2]])
        before(pr, qr) == pr[1] < qr[1] \/ (pr[1] = qr[1] /\ pr[2] <= qr[2])
        best_pair == CHOOSE pr \in pairs :
                        \A qr \in pairs :
                            gap(pr) < gap(qr) \/ (gap(pr) = gap(qr) /\ before(pr, qr))
        keep == {best_pair[1], best_pair[2]}
    IN  IF paired # {}
        THEN (IF candidates # {} THEN Min(candidates) - 1 ELSE lowest - 1)
        ELSE IF Cardinality(suited_idxs) >= 2 /\ off_suit # {}
        THEN Min(off_suit) - 1
        ELSE Min(idx \ keep) - 1

NoCall == [op |-> "none", raised |-> FALSE, equity |-> PlNone, src |-> "none", idx |-> None]

InitPlayer ==
    /\ pl_pc = "unborn"
    /\ discard_file = FileMissing
    /\ combined_file = FileMissing
    /\ stage_file = NoStageFile
    /\ discard_table = PyDict(<<>>)
    /\ equity_tables = <<>>
    /\ pl_out = NoCall

\* Player.__init__ with the files df, cf, sf in the bot's directory
Construct(df, cf, sf) ==
    /\ pl_pc = "unborn"
    /\ discard_file' = df
    /\ combined_file' = cf
    /\ stage_file' = sf
    /\ discard_table' = load_discard_table(df)
    /\ equity_tables' = load_stage(sf, load_combined(cf))
    /\ pl_pc' = "ready"
    /\ pl_out' = [NoCall EXCEPT !.op = "__init__"]
    /\ UNCHANGED playerFrame

\* Player.handle_new_round
HandleNewRound ==
    /\ pl_pc = "ready"
    /\ pl_out' = [NoCall EXCEPT !.op = "handle_new_round"]
    /\ UNCHANGED <<pl_pc, fileVars, discard_table, equity_tables, playerFrame>>

\* Player.handle_round_over
HandleRoundOver ==
    /\ pl_pc = "ready"
    /\ pl_out' = [NoCall EXCEPT !.op = "handle_round_over"]
    /\ UNCHANGED <<pl_pc, fileVars, discard_table, equity_tables, playerFrame>>

\* Player.get_action: the equity lookup, then (when a discard is legal) the
\* discard from the table or else from the heuristic; otherwise a betting
\* action chosen from the equity
GetAction(inp) ==
    /\ pl_pc = "ready"
    /\ LET eq == equity_lookup(equity_tables, inp.hand, inp.board)
           dl == lookup_discard_table(discard_table, inp.hand, inp.board)
       IN  IF eq.raised
           THEN /\ pl_pc' = "raised"
                /\ pl_out' = [NoCall EXCEPT !.op = "get_action", !.raised = TRUE]
                /\ UNCHANGED discard_table
           ELSE IF ~inp.discard
           THEN /\ pl_pc' = "ready"
                /\ pl_out' = [NoCall EXCEPT !.op = "get_action", !.equity = eq, !.src = "bet"]
                /\ UNCHANGED discard_table
           ELSE IF dl.raised
           THEN /\ pl_pc' = "raised"
                /\ pl_out' = [NoCall EXCEPT !.op = "get_action", !.raised = TRUE, !.equity = eq]
                /\ UNCHANGED discard_table
           ELSE /\ pl_pc' = "ready"
                /\ discard_table' =
                       IF Truthy(discard_table) /\ inp.hand # <<>>
                       THEN get_effect(discard_table, Player_lookup_key(inp.hand, inp.board))
                       ELSE discard_table
                /\ pl_out' = [op |-> "get_action", raised |-> FALSE, equity |-> eq,
                              src |-> IF dl.hit THEN "table" ELSE "heuristic",
                              idx |-> IF dl.hit THEN dl.val
                                      ELSE heuristic_discard(inp.hand, inp.board)]
    /\ UNCHANGED <<fileVars, equity_tables, playerFrame>>

NextPlayer ==
    \/ \E df \in DiscardFiles, cf \in CombinedFiles, sf \in StageFiles : Construct(df, cf, sf)
    \/ HandleNewRound
    \/ HandleRoundOver
    \/ \E inp \in PlayerInputs : GetAction(inp)

(***************************************************************************)
(* unique_canonical_hands (build_discard_table.py, build_equity_table.py). *)
(***************************************************************************)
\* deck = [r + s for r in RANKS for s in SUITS], on the first UhRanks ranks
UhDeck ==
    LET nr == IF UhRanks < Len(RANKS) THEN UhRanks ELSE Len(RANKS)
    IN  [k \in 1..(nr * Len(SUITS)) |->
            <<RANKS[((k - 1) \div Len(SUITS)) + 1], SUITS[((k - 1) % Len(SUITS)) + 1]>>]

\* the combinations of the rest of the deck, each preceded by card c
PrependAll(c, ss) == [k \in 1..Len(ss) |-> <<c>> \o ss[k]]

\* itertools.combinations(seq, k), in its order
RECURSIVE combinations(_, _)
combinations(seq, k) ==
    IF k = 0 THEN << <<>> >>
    ELSE IF Len(seq) < k THEN <<>>
    ELSE PrependAll(Head(seq), combinations(Tail(seq), k - 1)) \o combinations(Tail(seq), k)

\* canon = "_".join(sorted(canonicalize_cards(hand)))
hand_canon(im, hnd) ==
    IF im = "discard" THEN join(sorted(bd_canonicalize_cards(hnd)))
    ELSE join(sorted(be_canonicalize_cards(hnd)))

InitUnique ==
    /\ uh_pc = "idle"
    /\ uh_impl = "none"
    /\ uh_queue = <<>>
    /\ uh_seen = {}
    /\ uh_unique = <<>>

\* unique_canonical_hands(deck) of build_discard_table (hs = 3) or
\* unique_canonical_hands(deck, hand_size) of build_equity_table, up to the loop
UhStart(im, hs) ==
    /\ uh_pc = "idle"
    /\ im = "discard" => hs = MaxHand
    /\ uh_impl' = im
    /\ uh_queue' = combinations(UhDeck, hs)
    /\ uh_seen' = {}
    /\ uh_unique' = <<>>
    /\ uh_pc' = "loop"
    /\ UNCHANGED uhFrame

\* one iteration: the hand is kept unless its canonical string was seen
UhStep ==
    /\ uh_pc = "loop"
    /\ uh_queue # <<>>
    /\ LET hnd == Head(uh_queue)
           canon == hand_canon(uh_impl, hnd)
       IN  IF canon \in uh_seen
           THEN UNCHANGED <<uh_seen, uh_unique>>
           ELSE /\ uh_seen' = uh_seen \cup {canon}
                /\ uh_unique' = Append(uh_unique, hnd)
    /\ uh_queue' = Tail(uh_queue)
    /\ UNCHANGED <<uh_pc, uh_impl, uhFrame>>

\* return unique
UhReturn ==
    /\ uh_pc = "loop"
    /\ uh_queue = <<>>
    /\ uh_pc' = "done"
    /\ UNCHANGED <<uh_impl, uh_queue, uh_seen, uh_unique, uhFrame>>

NextUnique ==
    \/ \E im \in {"discard", "equity"}, hs \in MinHand..MaxHand : UhStart(im, hs)
    \/ UhStep
    \/ UhReturn

(***************************************************************************)
(* The discard table from build to use.  build_discard_table.main builds   *)
(* the table and pickles it to the output file; Player.__init__, in another *)
(* process and at any time, loads discard_table.pkl as it then is; the     *)
(* Player's get_action looks the runtime hand and board up in the table it *)
(* loaded.  best_discard returns whichever index the external oracle makes *)
(* the best, so every index of the hand is a possible di.  No equity file  *)
(* is present in this machine.                                             *)
(***************************************************************************)
\* The (hand3, board) pairs build_table visits, hand by hand: the hands are
\* hands of unique_canonical_hands(deck), the boards the first 3 cards of
\* 4-card combinations of the deck, all listed in deck order.  The third pair
\* shares a card with its hand.
HitPairs ==
    << [hand3 |-> << <<"2", "s">>, <<"T", "h">>, <<"A", "d">> >>,
        board |-> << <<"Q", "s">>, <<"K", "s">>, <<"A", "h">> >>],
       [hand3 |-> << <<"Q", "s">>, <<"K", "s">>, <<"A", "s">> >>,
        board |-> << <<"2", "c">>, <<"T", "d">>, <<"A", "h">> >>],
       [hand3 |-> << <<"Q", "s">>, <<"K", "s">>, <<"A", "s">> >>,
        board |-> << <<"T", "s">>, <<"Q", "s">>, <<"A", "d">> >>] >>

\* --output: the default name, which is the name the Player loads, or another
OutputNames == {"discard_table.pkl", "other.pkl"}

\* the cards dealt at runtime
HitCards ==
    { <<"A", "s">>, <<"T", "h">>, <<"2", "d">>, <<"A", "c">>, <<"K", "s">>, <<"Q", "s">> }

\* the sequences of n different elements of S
RECURSIVE Arrangements(_, _)
Arrangements(S, n) ==
    IF n = 0 THEN { <<>> }
    ELSE UNION { { <<x>> \o t : t \in Arrangements(S \ {x}, n - 1) } : x \in S }

\* the hands and boards the engine can hand to get_action on the first discard
\* street: a hand of three cards and the flop, no card twice, in any order
RuntimeDeals ==
    { [hand |-> SubSeq(a, 1, MaxHand), board |-> SubSeq(a, MaxHand + 1, Len(a))] :
        a \in Arrangements(HitCards, Cardinality(HitCards)) }

NoChoice == [op |-> "none", hand |-> <<>>, board |-> <<>>, key |-> "", hit |-> FALSE, idx |-> None]

InitHit ==
    /\ ht_pc = "idle"
    /\ ht_queue = <<>>
    /\ ht_table = <<>>
    /\ ht_file = FileMissing
    /\ ht_player = "unborn"
    /\ ht_loaded = PyDict(<<>>)
    /\ ht_out = NoChoice

\* main calls build_table, which runs up to its loop over the hands and boards
HtStart ==
    /\ ht_pc = "idle"
    /\ ht_queue' = HitPairs
    /\ ht_table' = <<>>
    /\ ht_pc' = "loop"
    /\ UNCHANGED <<ht_file, ht_player, ht_loaded, ht_out, htFrame>>

\* one (hand3, board) of build_table: skipped when the board shares a card with
\* the hand, else table[key] = best_discard(hand3, board), which is idx
HtStore(idx) ==
    /\ ht_pc = "loop"
    /\ ht_queue # <<>>
    /\ LET p == Head(ht_queue)
       IN  ht_table' = IF Overlaps(p.hand3, p.board) THEN ht_table
                       ELSE (bd_table_key(p.hand3, p.board) :> idx) @@ ht_table
    /\ ht_queue' = Tail(ht_queue)
    /\ UNCHANGED <<ht_pc, ht_file, ht_player, ht_loaded, ht_out, htFrame>>

\* build_table: return table
HtReturn ==
    /\ ht_pc = "loop"
    /\ ht_queue = <<>>
    /\ ht_pc' = "returned"
    /\ UNCHANGED <<ht_queue, ht_table, ht_file, ht_player, ht_loaded, ht_out, htFrame>>

\* main: pickle.dump(table) into Path(__file__).parent / args.output
HtSave(output) ==
    /\ ht_pc = "returned"
    /\ ht_file' = IF output = "discard_table.pkl" THEN FileOk(PyDict(ht_table)) ELSE ht_file
    /\ ht_pc' = "done"
    /\ UNCHANGED <<ht_queue, ht_table, ht_player, ht_loaded, ht_out, htFrame>>

\* the written file is removed, made unreadable or damaged before it is loaded
HtFileLost(f) ==
    /\ ht_file.st = "ok"
    /\ ht_player = "unborn"
    /\ ht_file' = f
    /\ UNCHANGED <<ht_pc, ht_queue, ht_table, ht_player, ht_loaded, ht_out, htFrame>>

\* Player.__init__: discard_table = {} and _load_discard_table on the file as
\* it is now
HtConstruct ==
    /\ ht_player = "unborn"
    /\ ht_loaded' = load_discard_table(ht_file)
    /\ ht_player' = "ready"
    /\ UNCHANGED <<ht_pc, ht_queue, ht_table, ht_file, ht_out, htFrame>>

\* Player.get_action on the street where the hand has three cards, once in a
\* round: DiscardAction(_choose_discard(hand, board)), the table's index, else
\* the heuristic
HtChoose(inp) ==
    /\ ht_player = "ready"
    /\ ht_out = NoChoice
    /\ LET dl == lookup_discard_table(ht_loaded, inp.hand, inp.board)
       IN  ht_out' = [op |-> "choose_discard", hand |-> inp.hand, board |-> inp.board,
                      key |-> Player_lookup_key(inp.hand, inp.board),
                      hit |-> dl.hit,
                      idx |-> IF dl.hit THEN dl.val
                              ELSE heuristic_discard(inp.hand, inp.board)]
    /\ UNCHANGED <<ht_pc, ht_queue, ht_table, ht_file, ht_player, ht_loaded, htFrame>>

\* the next round begins (Player.handle_new_round changes no table)
HtNewRound ==
    /\ ht_player = "ready"
    /\ ht_out # NoChoice
    /\ ht_out' = NoChoice
    /\ UNCHANGED <<ht_pc, ht_queue, ht_table, ht_file, ht_player, ht_loaded, htFrame>>

NextHit ==
    \/ HtStart
    \/ \E idx \in 0..(MaxHand - 1) : HtStore(idx)
    \/ HtReturn
    \/ \E output \in OutputNames : HtSave(output)
    \/ \E f \in {FileMissing, FileUnreadable, FileCorrupt} : HtFileLost(f)
    \/ HtConstruct
    \/ \E inp \in RuntimeDeals : HtChoose(inp)
    \/ HtNewRound

Init == InitKeys /\ InitBuild /\ InitClass /\ InitPlayer /\ InitUnique /\ InitHit

SpecKeys == Init /\ [][NextKeys]_vars

SpecBuild == Init /\ [][NextBuild]_vars

SpecClass == Init /\ [][NextClass]_vars

SpecPlayer == Init /\ [][NextPlayer]_vars

SpecUnique == Init /\ [][NextUnique]_vars

SpecHit == Init /\ [][NextHit]_vars

(***************************************************************************)
(* Claims on the canonicalizer and the keys.                               *)
(***************************************************************************)
SameRanks(a, b) == Len(a) = Len(b) /\ \A i \in 1..Len(a) : a[i][1] = b[i][1]

\* C1: canonicalization is idempotent, canon(canon(x)) = canon(x), and its
\* output has the length of x with the rank at every position unchanged.
C1_CanonIdempotent ==
    /\ out.op = "canon" => SameRanks(out.val, Given)
    /\ out.op = "canon2" => (out.val = out.prev /\ SameRanks(out.val, Given))

\* C1 witness: a hand and board with all four suits, out of rank order, whose
\* canonical form differs from the input, canonicalized twice.
C1_Witness ==
    /\ out.op = "canon2"
    /\ out.prev # Given
    /\ Cardinality(SuitsOf(Given)) = 4
    /\ sorted(Given) # Given

\* C2: for every permutation pi of the four suits, canonicalizing pi(x) gives
\* the result of canonicalizing x, and so the same hand key and hand-board key.
C2_SuitInvariant ==
    /\ out.op = "canon" =>
         \A pi \in SuitPerms : CanonBy(out.impl, Relabel(pi, Given)) = out.val
    /\ out.op = "build" =>
         \A pi \in SuitPerms :
            /\ bd_table_key(Relabel(pi, hand), Relabel(pi, board)) = out.dkey
            /\ be_hand_board_key(Relabel(pi, hand), Relabel(pi, board)) = out.ekey

\* C2 witness: keys built for a hand and board showing all four suits, which a
\* suit permutation turns into different cards.
C2_Witness ==
    /\ out.op = "build"
    /\ Cardinality(SuitsOf(Given)) = 4
    /\ Len(board) > 0
    /\ \E pi \in SuitPerms : Relabel(pi, Given) # Given

\* C3: the key the build path produces equals the key the runtime lookup path
\* produces for the same (hand, board), for discard tables and equity tables.
C3_KeyParity ==
    /\ out.op = "build" =>
         /\ out.dkey = Player_lookup_key(hand, board)
         /\ out.ekey = Player_equity_key(hand, board)
    /\ out.op = "lookup" =>
         /\ out.dkey = bd_table_key(hand, board)
         /\ out.ekey = be_hand_board_key(hand, board)

\* C3 witness: the runtime path has produced keys for a 3-card hand and a
\* 3-card board whose signature is not the empty-board sentinel.
C3_Witness ==
    /\ out.op = "lookup"
    /\ Len(hand) = 3 /\ Len(board) = 3
    /\ out.dkey # Player_hand_key(hand, board) \o "|empty"

(***************************************************************************)
(* Claims on the estimator, best_discard and the discard-table build.      *)
(***************************************************************************)
InEstimator == pc \in {"eq_loop", "eq_dealt", "eq_ret", "eq_error", "eq_crash"}

\* the known cards of the running estimate_equity call
Known == SeqToSet(kept) \cup SeqToSet(e_board)

\* the full deck minus the known cards, each card once
Unknown == SetToBag(DeckCards \ Known)

\* C4: every value build_table stores in the discard table is an index in
\* [0, hand_size - 1], and best_discard never returns None or an index out of
\* range, for any trial count including 0.
C4_DiscardIndexValid ==
    /\ \A k \in DOMAIN table : table[k] \in 0..(MaxHand - 1)
    /\ pc = "bd_ret" => best.idx \in 0..(MaxHand - 1)

\* C4 witness: a build with trials = 0 has stored an entry for each of its two
\* valid (hand, board) pairs and returned.
C4_Witness ==
    /\ pc = "bt_ret"
    /\ trials = 0
    /\ Cardinality(DOMAIN table) = 2

\* C5: estimate_equity returns (wins + 0.5 * ties) / trials; every trial adds to
\* at most one of wins and ties, so wins + ties <= trials completed and the
\* result lies in [0, 1]; with trials = 0 it returns 0.
C5_EquityResult ==
    /\ pc \in {"eq_loop", "eq_dealt", "eq_ret"} =>
         /\ wins >= 0 /\ ties >= 0
         /\ wins + ties <= trial
         /\ trial <= trials
    /\ pc = "eq_ret" =>
         /\ result.den > 0
         /\ trials = 0 => result.num = 0
         /\ trials > 0 => 2 * trials * result.num = (2 * wins + ties) * result.den
         /\ 0 <= result.num /\ result.num <= result.den

\* C5 witness: a call with two trials, one won and one tied, has returned 0.75.
C5_Witness ==
    /\ pc = "eq_ret"
    /\ trials = 2 /\ wins = 1 /\ ties = 1
    /\ 4 * result.num = 3 * result.den

\* C6 (as claimed): a board larger than the final board makes every
\* estimate_equity of the build tools fail with the configuration error before
\* any trial; a negative number of board cards is never dealt.
C6_ConfigErrorBeforeTrials ==
    (InEstimator /\ Len(e_board) > FinalBoardOf(impl)) => (pc = "eq_error" /\ trial = 0)

\* C7: at the start of every trial the deck holds exactly the full deck minus
\* the known hand and board cards, each once; within a trial the opponent's 2
\* cards and the drawn board cards are pairwise distinct and disjoint from the
\* known cards, and together with the deck they make up the same cards, which
\* are all back in the deck before the next trial.
C7_DeckRestored ==
    /\ pc = "eq_loop" => deck = Unknown
    /\ pc = "eq_dealt" =>
         /\ BagCardinality(opp) = OppCards
         /\ need_board >= 0 => BagCardinality(draw) = need_board
         /\ \A c \in BagToSet(opp (+) draw) : CopiesIn(c, opp (+) draw) = 1
         /\ BagToSet(opp (+) draw) \cap Known = {}
         /\ deck (+) opp (+) draw = Unknown

\* C7 witness: the third trial of a call is about to start, after two trials
\* that each dealt 2 opponent cards and 2 board cards.
C7_Witness ==
    /\ pc = "eq_loop"
    /\ trial = 2
    /\ need_board = 2

(***************************************************************************)
(* Claims on the hand classifier.                                          *)
(***************************************************************************)
Evaluated == flags # NoFlags

RanksOf(cs) == {c[1] : c \in cs}

\* the number of cards of rank r among the known cards
Count(r) == Cardinality({c \in ev_cards : c[1] = r})

\* hand A-spade A-heart, board A-diamond K-spade K-heart
FixedVector == { <<14, 1>>, <<14, 0>>, <<14, 2>>, <<13, 1>>, <<13, 0>> }

\* C9: the made flag (2) of the rank-count categories follows the rules: Pair
\* iff some rank has count >= 2, TwoPair iff two distinct ranks have count >= 2,
\* ThreeOfAKind iff some count >= 3, FourOfAKind iff some count >= 4, FullHouse
\* iff one rank has count >= 3 and a different rank count >= 2; and hand A,A
\* with board A,K,K gives FullHouse, ThreeOfAKind, Pair, TwoPair 2, Straight and
\* Flush 0.
C9_MadeCountingFlags ==
    Evaluated =>
        LET R == RanksOf(ev_cards)
        IN  /\ (flags.Pair = 2) <=> (\E r \in R : Count(r) >= 2)
            /\ (flags.TwoPair = 2) <=>
                   (\E r \in R, q \in R : r # q /\ Count(r) >= 2 /\ Count(q) >= 2)
            /\ (flags.ThreeOfAKind = 2) <=> (\E r \in R : Count(r) >= 3)
            /\ (flags.FourOfAKind = 2) <=> (\E r \in R : Count(r) >= 4)
            /\ (flags.FullHouse = 2) <=>
                   (\E r \in R, q \in R : r # q /\ Count(r) >= 3 /\ Count(q) >= 2)
            /\ ev_cards = FixedVector =>
                   /\ flags.FullHouse = 2 /\ flags.ThreeOfAKind = 2
                   /\ flags.Pair = 2 /\ flags.TwoPair = 2
                   /\ flags.Straight = 0 /\ flags.Flush = 0

\* C9 witness: the classifier has evaluated A,A with A,K,K as a full house.
C9_Witness ==
    /\ Evaluated
    /\ ev_cards = FixedVector
    /\ flags.FullHouse = 2

\* the highest number of known cards sharing one rank
HighestCount == CHOOSE n \in 0..MAX_CARDS :
    /\ \A r \in RanksOf(ev_cards) : Count(r) <= n
    /\ n = 0 \/ \E r \in RanksOf(ev_cards) : Count(r) = n

TwoPairMade ==
    \E r \in RanksOf(ev_cards), q \in RanksOf(ev_cards) :
        r # q /\ Count(r) >= 2 /\ Count(q) >= 2

FullHouseMade ==
    \E r \in RanksOf(ev_cards), q \in RanksOf(ev_cards) :
        r # q /\ Count(r) >= 3 /\ Count(q) >= 2

\* C21: with fewer than 8 cards, the draw flag (1) of the rank-count categories
\* follows the rules: Pair=1 iff no rank is repeated; TwoPair=1 iff two pair is
\* not made, the highest rank count is exactly 2 and at least 3 cards are known;
\* ThreeOfAKind=1 iff the highest count is exactly 2; FourOfAKind=1 iff the
\* highest count is exactly 3; FullHouse=1 iff a full house is not made and
\* either a rank of count >= 3 stands next to a second distinct rank or at
\* least two distinct ranks have count >= 2.
C21_CountingDraws ==
    (Evaluated /\ Cardinality(ev_cards) < MAX_CARDS) =>
        LET R == RanksOf(ev_cards)
        IN  /\ (flags.Pair = 1) <=> (\A r \in R : Count(r) = 1)
            /\ (flags.TwoPair = 1) <=>
                   (~TwoPairMade /\ HighestCount = 2 /\ Cardinality(ev_cards) >= 3)
            /\ (flags.ThreeOfAKind = 1) <=> (HighestCount = 2)
            /\ (flags.FourOfAKind = 1) <=> (HighestCount = 3)
            /\ (flags.FullHouse = 1) <=>
                   /\ ~FullHouseMade
                   /\ \/ \E r \in R, q \in R : r # q /\ Count(r) >= 3
                      \/ TwoPairMade

\* C21 witness: trips next to one other rank have been evaluated as a full
\* house draw and a four of a kind draw.
C21_Witness ==
    /\ Evaluated
    /\ Cardinality(ev_cards) < MAX_CARDS
    /\ HighestCount = 3
    /\ ~TwoPairMade
    /\ Cardinality(RanksOf(ev_cards)) >= 2
    /\ flags.FullHouse = 1
    /\ flags.FourOfAKind = 1

\* the ranks present, the ace also standing for rank 1
WithLowAce(R) == R \cup (IF 14 \in R THEN {1} ELSE {})

\* five consecutive ranks lo..lo+4, all within 1..14
FiveConsecutive(R) == \E lo \in 1..14 : lo + 4 <= 14 /\ \A r \in lo..(lo + 4) : r \in WithLowAce(R)

\* C10: Straight = 2 exactly when the ranks contain 5 consecutive ranks, rank 14
\* also counting as rank 1; ranks {14,2,3,4,5} give Straight = 2, and the ace
\* does not wrap around: Q-K-A-2-3 alone is not a straight.
C10_MadeStraight ==
    Evaluated =>
        /\ (flags.Straight = 2) <=> FiveConsecutive(RanksOf(ev_cards))
        /\ {14, 2, 3, 4, 5} \subseteq RanksOf(ev_cards) => flags.Straight = 2
        /\ RanksOf(ev_cards) = {12, 13, 14, 2, 3} => flags.Straight # 2

\* C10 witness: the wheel A-2-3-4-5, with no other straight, evaluated as a
\* made straight.
C10_Witness ==
    /\ Evaluated
    /\ RanksOf(ev_cards) = {14, 2, 3, 4, 5}
    /\ flags.Straight = 2

\* exactly 4 of the 5 ranks of some window lo..lo+4 are present (ace also low)
FourOfWindow(R) ==
    \E lo \in 1..10 : Cardinality({r \in lo..(lo + 4) : r \in WithLowAce(R)}) = 4

\* C11 (as claimed): fewer than 8 cards with exactly 4 of the ranks of some
\* 5-rank window present give Straight = 1.
C11_StraightDrawAsClaimed ==
    (Evaluated /\ Cardinality(ev_cards) < MAX_CARDS /\ FourOfWindow(RanksOf(ev_cards)))
        => flags.Straight = 1

\* C11 (amended): fewer than 8 cards with exactly 4 of the ranks of some 5-rank
\* window present (the wheel window included), and no 5 consecutive ranks
\* present, give Straight = 1; with 5 consecutive ranks the flag is 2.
C11_StraightDraw ==
    (Evaluated /\ Cardinality(ev_cards) < MAX_CARDS /\ FourOfWindow(RanksOf(ev_cards)))
        => flags.Straight = (IF FiveConsecutive(RanksOf(ev_cards)) THEN 2 ELSE 1)

\* C11 witness: a draw to the wheel (A-2-3-5), flagged 1.
C11_Witness ==
    /\ Evaluated
    /\ RanksOf(ev_cards) = {14, 2, 3, 5}
    /\ flags.Straight = 1

Categories ==
    {"Pair", "TwoPair", "ThreeOfAKind", "Straight", "Flush", "FullHouse",
     "FourOfAKind", "StraightFlush"}

\* C12: on every input of 2 to 8 cards the classifier has a result, the result
\* has exactly the 8 categories, each flag is 0, 1 or 2, and with 8 cards no
\* flag is 1.
C12_TotalAndNoDrawAtMax ==
    /\ (Cardinality(ev_cards) \in 2..MAX_CARDS /\ ~Evaluated) =>
           evaluate_poker_hands(ev_cards, MAX_CARDS) \in [Categories -> {0, 1, 2}]
    /\ Evaluated =>
        /\ DOMAIN flags = Categories
        /\ \A c \in Categories : flags[c] \in {0, 1, 2}
        /\ Cardinality(ev_cards) = MAX_CARDS => \A c \in Categories : flags[c] \in {0, 2}

\* C12 witness: 8 cards with exactly four of one suit, where a flush draw
\* would be flagged with fewer cards, evaluated with Flush = 0.
C12_Witness ==
    /\ Evaluated
    /\ Cardinality(ev_cards) = MAX_CARDS
    /\ \E s \in 0..3 : Cardinality({c \in ev_cards : c[2] = s}) = 4
    /\ flags.Flush = 0

\* the ranks of the cards of suit s
RanksInSuit(s) == {c[1] : c \in {x \in ev_cards : x[2] = s}}

SuitCount(s) == Cardinality({c \in ev_cards : c[2] = s})

\* C13: StraightFlush is 2 exactly when some suit has at least 5 cards whose
\* ranks alone contain a straight; otherwise 1 exactly when fewer than 8 cards
\* are known and some suit has at least 4 cards whose ranks alone are a
\* straight draw; otherwise 0.
C13_StraightFlushWithinSuit ==
    Evaluated =>
        LET made == \E s \in 0..3 : SuitCount(s) >= 5 /\ FiveConsecutive(RanksInSuit(s))
            drawn == /\ Cardinality(ev_cards) < MAX_CARDS
                     /\ \E s \in 0..3 : SuitCount(s) >= 4 /\ FourOfWindow(RanksInSuit(s))
        IN  flags.StraightFlush = (IF made THEN 2 ELSE IF drawn THEN 1 ELSE 0)

\* C13 witness: a flush in one suit and a straight that needs cards of another
\* suit, evaluated as no straight flush.
C13_Witness ==
    /\ Evaluated
    /\ flags.Flush = 2
    /\ flags.Straight = 2
    /\ flags.StraightFlush # 2

(***************************************************************************)
(* Claims on the Player's tables.                                          *)
(***************************************************************************)
\* a file that does not hold a usable table
BadDiscardFile == discard_file.st # "ok" \/ discard_file.obj.type # "dict"

\* C14 (as claimed): whatever the state of the table files at startup,
\* constructing the Player and every later lookup completes without raising;
\* with a missing, unreadable, corrupt or malformed discard table the lookup
\* misses and the discard comes from the heuristic.
C14_LoadingNeverFatal ==
    /\ pl_pc # "raised"
    /\ (pl_out.op = "get_action" /\ pl_out.src \in {"table", "heuristic"} /\ BadDiscardFile)
           => pl_out.src = "heuristic"

\* C15: once __init__ has returned, no call of handle_new_round, get_action or
\* handle_round_over changes discard_table or equity_tables.
C15_TablesWriteOnce ==
    [][pl_pc = "ready" => (discard_table' = discard_table /\ equity_tables' = equity_tables)]_vars

\* C15 witness: a discard was looked up in a loaded table and missed, and the
\* heuristic answered.
C15_Witness ==
    /\ pl_out.op = "get_action"
    /\ pl_out.src = "heuristic"
    /\ discard_table.type = "dict"
    /\ DOMAIN discard_table.items # {}

(***************************************************************************)
(* Claims on the table builders.                                           *)
(***************************************************************************)
InBuilder == caller \in {"best_discard", "build_equity"}

\* the keys of the pairs of ps whose board shares no card with the hand
DisjointKeys(ps, keyOf(_, _)) ==
    { keyOf(ps[k].hand3, ps[k].board) :
        k \in {j \in 1..Len(ps) : SeqToSet(ps[j].hand3) \cap SeqToSet(ps[j].board) = {}} }

\* C16: the builders never evaluate or store a (hand, board) pair whose board
\* shares a card with the hand; such a pair is skipped without an error, in
\* the discard-table build and in the equity-table build.
C16_OverlapSkipped ==
    /\ cur # NoCur => SeqToSet(cur.hand3) \cap SeqToSet(cur.board) = {}
    /\ (InEstimator /\ InBuilder) =>
           /\ SeqToSet(kept) \cap SeqToSet(e_board) = {}
           /\ pc \notin {"eq_error", "eq_crash"}
    /\ DOMAIN table \subseteq DisjointKeys(BuildPairs, bd_table_key)
    /\ DOMAIN eq_table \subseteq DisjointKeys(EquityPairs, be_hand_board_key)
    /\ pc = "bt_ret" => DOMAIN table = DisjointKeys(BuildPairs, bd_table_key)

\* C16 witness: the equity-table build has finished, having met a board that
\* shares a card with its hand, with the other pairs stored.
C16_Witness ==
    /\ pc = "be_ret"
    /\ \E k \in 1..Len(EquityPairs) : Overlaps(EquityPairs[k].hand3, EquityPairs[k].board)
    /\ Cardinality(DOMAIN eq_table) = 2

\* the order of two estimates
Above(a, b) == a.num * b.den > b.num * a.den

\* C17: best_discard evaluates each of the 3 single-card discards of the hand
\* and returns the index whose remaining 2-card hand has the highest estimated
\* equity, the lowest such index when several share the highest.
C17_BestDiscardArgmax ==
    pc = "bd_ret" =>
        /\ Len(scores) = MaxHand
        /\ \A j \in 1..MaxHand :
               /\ Len(scores[j].kept) = MaxHand - 1
               /\ scores[j].kept = KeptOf(cur.hand3, j - 1)
        /\ best.idx \in 0..(MaxHand - 1)
        /\ \A j \in 1..MaxHand : ~Above(scores[j].score, scores[best.idx + 1].score)
        /\ \A j \in 1..best.idx : Above(scores[best.idx + 1].score, scores[j].score)

\* C17 witness: the second and the third discard share the highest estimate,
\* above the first, and the second is returned.
C17_Witness ==
    /\ pc = "bd_ret"
    /\ best.idx = 1
    /\ Above(scores[2].score, scores[1].score)
    /\ ~Above(scores[2].score, scores[3].score)
    /\ ~Above(scores[3].score, scores[2].score)

(***************************************************************************)
(* Claims on the key formats.                                              *)
(***************************************************************************)
\* the position at which suit x first appears in cs
FirstAt(cs, x) == Min({i \in 1..Len(cs) : cs[i][2] = x})

\* the canonical label of suit x of cs: the labels s, h, d, c are given in
\* the order in which the suits first appear
LabelOf(cs, x) ==
    SUITS[1 + Cardinality({y \in {cs[i][2] : i \in 1..Len(cs)} : FirstAt(cs, y) < FirstAt(cs, x)})]

Relabelled(cs) == [i \in 1..Len(cs) |-> <<cs[i][1], LabelOf(cs, cs[i][2])>>]

\* the canonical hand cards and the canonical board cards of (h, b), hand
\* cards scanned first, each part sorted and joined
HandPart(h, b) == join(sorted(SubSeq(Relabelled(h \o b), 1, Len(h))))

BoardPart(h, b) == join(sorted(SubSeq(Relabelled(h \o b), Len(h) + 1, Len(h) + Len(b))))

RankIx(c) == IndexIn(RANKS, c[1])

\* the bucket signature of a board, from the board cards alone
SigOf(brd) ==
    IF brd = <<>> THEN "empty"
    ELSE
    LET ix == 1..Len(brd)
        most == Max({Cardinality({j \in ix : brd[j][2] = brd[i][2]}) : i \in ix})
        tex == IF most = 1 THEN "rainbow" ELSE IF most = 2 THEN "two" ELSE "mono"
        pairedB == IF \E i \in ix, j \in ix : i # j /\ brd[i][1] = brd[j][1] THEN "1" ELSE "0"
        top == Max({RankIx(brd[i]) : i \in ix})
        low == Min({RankIx(brd[i]) : i \in ix})
        conn == IF top - low <= 2 THEN "tight" ELSE IF top - low <= 4 THEN "med" ELSE "loose"
    IN  tex \o "|paired:" \o pairedB \o "|hi:" \o RANKS[top + 1]
            \o "|spread:" \o IntStr(top - low) \o "|connect:" \o conn

\* C18 (as claimed): the discard-table key and the equity-table key of a
\* (hand, board) are built on the same CanonicalKey(hand, board): the discard
\* key is that key + "|" + BucketSignature(board, hand), the equity key is that
\* key alone.
C18_SameCanonicalKey ==
    out.op = "build" => out.dkey = out.ekey \o "|" \o SigOf(board)

\* C18 (amended): every discard-table key is the canonical hand cards + "|" +
\* BucketSignature(board, hand); every equity-table key, written or looked up,
\* is the canonical hand cards + "|" + the canonical board cards, and carries
\* no bucket signature.
C18_KeyAsymmetry ==
    /\ out.op = "build" =>
         /\ out.dkey = HandPart(hand, board) \o "|" \o SigOf(board)
         /\ out.ekey = HandPart(hand, board) \o "|" \o BoardPart(hand, board)
    /\ out.op = "lookup" =>
         out.ekey = HandPart(hand, board) \o "|" \o BoardPart(hand, board)

\* C18 witness: the keys of a 3-card hand and a 3-card board have been built.
C18_Witness ==
    /\ out.op = "build"
    /\ Len(hand) = 3
    /\ Len(board) = 3
    /\ out.ekey # out.dkey

\* C19: the bucket signature depends on the board cards only: "empty" for an
\* empty board, else rainbow / two / mono for a most frequent board suit of
\* 1 / 2 / at least 3 cards, paired 1 iff two board cards share a rank, spread
\* the distance between the highest and the lowest board rank, connect tight
\* for spread <= 2, med for spread <= 4, else loose; the hand never changes it.
C19_SignatureFromBoard ==
    /\ out.op = "build" =>
         /\ out.dkey = bd_hand_key(hand, board) \o "|" \o SigOf(board)
         /\ bd_flop_signature(board, <<>>) = SigOf(board)
    /\ out.op = "lookup" =>
         /\ out.dkey = Player_hand_key(hand, board) \o "|" \o SigOf(board)
         /\ Player_flop_signature(board, <<>>) = SigOf(board)

\* C19 witness: a key was built for a hand with a pair and a board of three
\* cards of three suits and three ranks, so the hand's cards would change
\* texture and pairing if they were counted.
C19_Witness ==
    /\ out.op = "build"
    /\ Len(board) = 3
    /\ Cardinality({board[i][2] : i \in 1..3}) = 3
    /\ Cardinality({board[i][1] : i \in 1..3}) = 3
    /\ \E i \in 1..Len(hand), j \in 1..Len(hand) : i # j /\ hand[i][1] = hand[j][1]

(***************************************************************************)
(* Claims on the enumeration of hands.                                     *)
(***************************************************************************)
\* hands a and b, as sets of cards, are mapped onto each other by a
\* permutation of the four suits
SuitEquivalent(a, b) ==
    \E pi \in SuitPerms : SeqToSet(Relabel(pi, a)) = SeqToSet(b)

\* C20 (as claimed): unique_canonical_hands returns exactly one representative
\* per suit-symmetric class: no two returned hands are mapped onto each other by
\* a permutation of the suits, and every hand of the deck is a suit permutation
\* of some returned hand.
C20_OnePerClass ==
    /\ \A i \in 1..Len(uh_unique), j \in 1..Len(uh_unique) :
           i # j => ~SuitEquivalent(uh_unique[i], uh_unique[j])
    /\ uh_pc = "done" =>
           \A k \in 1..Len(combinations(UhDeck, Len(uh_unique[1]))) :
               \E i \in 1..Len(uh_unique) :
                   SuitEquivalent(combinations(UhDeck, Len(uh_unique[1]))[k], uh_unique[i])

(***************************************************************************)
(* Claims on the consistency of the classifier's flags.                    *)
(***************************************************************************)
\* C24: the flags of evaluate_poker_hands are mutually consistent on 2 to 8
\* cards: StraightFlush is never higher than Straight or Flush; FullHouse=2
\* implies ThreeOfAKind=2 and TwoPair=2; FourOfAKind=2 implies ThreeOfAKind=2;
\* ThreeOfAKind=2 or TwoPair=2 implies Pair=2.
C24_FlagsConsistent ==
    Evaluated =>
        /\ flags.StraightFlush <= flags.Straight
        /\ flags.StraightFlush <= flags.Flush
        /\ flags.FullHouse = 2 => (flags.ThreeOfAKind = 2 /\ flags.TwoPair = 2)
        /\ flags.FourOfAKind = 2 => flags.ThreeOfAKind = 2
        /\ (flags.ThreeOfAKind = 2 \/ flags.TwoPair = 2) => flags.Pair = 2

\* C24 witness: two pair beside a made straight that is one card short of a
\* straight flush have been evaluated.
C24_Witness ==
    /\ Evaluated
    /\ flags.StraightFlush = 1
    /\ flags.Straight = 2
    /\ flags.Flush = 1
    /\ flags.TwoPair = 2
    /\ flags.Pair = 2

(***************************************************************************)
(* Claims on the order of the cards inside a hand and inside a board.      *)
(***************************************************************************)
\* the same cards listed in every order
Reorderings(s) ==
    { [i \in 1..Len(s) |-> s[p[i]]] : p \in Permutations(1..Len(s)) }

\* C22 (as claimed): the key of a hand and board does not depend on the order
\* in which the cards are listed inside the hand or inside the board: every
\* reordering of the hand cards and of the board cards gives the keys the build
\* tools wrote and the keys the Player looks up.
C22_OrderIndependent ==
    \A ph \in Reorderings(hand), pb \in Reorderings(board) :
        /\ out.op = "build" =>
               /\ out.dkey = bd_table_key(ph, pb)
               /\ out.ekey = be_hand_board_key(ph, pb)
        /\ out.op = "lookup" =>
               /\ out.dkey = Player_lookup_key(ph, pb)
               /\ out.ekey = Player_equity_key(ph, pb)

(***************************************************************************)
(* Claims on the discard table from build to use.                          *)
(***************************************************************************)
\* the loaded table answered the discard of the round with the entry written
\* for the pair p of the build
HitOn(p) ==
    /\ ht_out.op = "choose_discard"
    /\ ht_out.hit
    /\ ht_loaded = PyDict(ht_table)
    /\ ~Overlaps(p.hand3, p.board)
    /\ bd_table_key(p.hand3, p.board) = ht_out.key

\* C23 (as claimed): a discard-table hit discards the card the builder chose:
\* when the runtime key equals the key stored for a build-time hand H with
\* index i, the card at position i of the runtime hand has the rank and, after
\* canonicalization, the suit label of the card at position i of H, whatever
\* order the runtime hand is listed in.
C23_HitDiscardsBuilderCard ==
    \A k \in 1..Len(HitPairs) :
        HitOn(HitPairs[k]) =>
            LET H == HitPairs[k].hand3
                i == ht_out.idx + 1
            IN  /\ ht_out.hand[i][1] = H[i][1]
                /\ Player_canonicalize_cards(ht_out.hand \o ht_out.board)[i] =
                       bd_canonicalize_cards(H \o HitPairs[k].board)[i]

====
